---- MODULE Spec2Model ----
(***************************************************************************)
(* Model of the mAIl repository:                                           *)
(*   benchmark/parse_benchmark.py  - the aggregation run: parse_log_file,  *)
(*       summarize_results ("safe", then "malicious"),                     *)
(*       generate_markdown_table                                           *)
(*   main.py, src/email_parser.py, src/classifier.py - process_emails      *)
(*                                                                         *)
(* Strings the code edits or matches (file names, model names) are         *)
(* sequences of one-character strings.  A log line is a sequence of JSON   *)
(* tokens; a JSON object literal is one token that carries the dictionary  *)
(* it decodes to.  Numbers that the code divides are kept as exact         *)
(* fractions [num, den].                                                   *)
(***************************************************************************)
EXTENDS Integers, Sequences, FiniteSets, TLC

VARIABLES
    dir,            \* the log directory: a set of files [name, lines]
    pc,             \* position of the aggregation run
    category,       \* argument of the running summarize_results call
    todo,           \* names glob.glob returned that the for loop has not visited
    log_file,       \* local of summarize_results: name of the file in the loop body
    model_name,     \* local of summarize_results
    results,        \* value returned by parse_log_file(log_file)
    stdout,         \* diagnostics printed by parse_log_file, oldest first
    safe_summary,   \* main(): summarize_results(log_dir, "safe")
    malicious_summary, \* main(): summarize_results(log_dir, "malicious")
    summary,        \* local of summarize_results: the dict being built
    table,          \* rows of the table generate_markdown_table returned
    raised,         \* the exception that ended the run, "" if none
    email_files,    \* process_emails argument
    eidx,           \* process_emails: index of the next email file
    eresults,       \* process_emails: the results list
    epc,            \* process_emails: "loop", "returned" or "raised"
    eraised         \* the exception that left process_emails, "" if none

vars == <<dir, pc, category, todo, log_file, model_name, results, stdout,
          safe_summary, malicious_summary, summary, table, raised,
          email_files, eidx, eresults, epc, eraised>>

runVars == <<dir, pc, category, todo, log_file, model_name, results, stdout,
             safe_summary, malicious_summary, summary, table, raised>>

emailVars == <<email_files, eidx, eresults, epc, eraised>>

---------------------------------------------------------------------------
(* Bounds *)

MaxRunLines == 1    \* lines per log file in Spec
MaxLines == 3       \* lines per log file in SpecParse
MaxRecords == 3     \* records per log file in SpecScore
MaxPieces == 2      \* pieces of a file name between prefix and suffix in SpecNames
MaxEmails == 3      \* email files per process_emails call

---------------------------------------------------------------------------
(* Strings as character sequences *)

StartsWith(s, p) == Len(s) >= Len(p) /\ SubSeq(s, 1, Len(p)) = p

EndsWith(s, p) == Len(s) >= Len(p) /\ SubSeq(s, Len(s) - Len(p) + 1, Len(s)) = p

\* str.replace(old, new): every non-overlapping occurrence, left to right
RECURSIVE Replace(_, _, _)
Replace(s, old, new) ==
    IF Len(s) < Len(old) THEN s
    ELSE IF SubSeq(s, 1, Len(old)) = old
         THEN new \o Replace(SubSeq(s, Len(old) + 1, Len(s)), old, new)
         ELSE <<Head(s)>> \o Replace(Tail(s), old, new)

CategoryStr(c) ==
    IF c = "safe" THEN <<"s", "a", "f", "e">>
    ELSE <<"m", "a", "l", "i", "c", "i", "o", "u", "s">>

\* f"test_{category}_"
Prefix(c) == <<"t", "e", "s", "t", "_">> \o CategoryStr(c) \o <<"_">>

DotLog == <<".", "l", "o", "g">>

Underscore == <<"_">>

Colon == <<":">>

\* glob pattern test_<category>_*.log applied to a base name
GlobMatches(name, c) ==
    /\ StartsWith(name, Prefix(c))
    /\ EndsWith(name, DotLog)
    /\ Len(name) >= Len(Prefix(c)) + Len(DotLog)

\* the replace chain of summarize_results
ModelName(name, c) ==
    Replace(Replace(Replace(name, Prefix(c), <<>>), DotLog, <<>>), Underscore, Colon)

---------------------------------------------------------------------------
(* JSON text and values *)

\* a decoded JSON object, reduced to the three keys summarize_results reads;
\* k says how the key occurs: "absent", "null", "str" (s is the text),
\* "num" (n is the number)
Dict(e, c, t) == [error |-> e, classification |-> c, inference_time |-> t]

Absent == [k |-> "absent", s |-> "", n |-> 0]

Null == [k |-> "null", s |-> "", n |-> 0]

StrVal(s) == [k |-> "str", s |-> s, n |-> 0]

NumVal(n) == [k |-> "num", s |-> "", n |-> n]

EmptyDict == Dict(FALSE, Absent, Absent)

\* tokens of a line: "ws" whitespace, "lb" [, "rb" ], "comma", "bad" text that
\* is no JSON token, and the scalars "null", "num", "str" (s), "obj" (o)
Tok(k) == [k |-> k, s |-> "", o |-> EmptyDict]

StrTok(s) == [k |-> "str", s |-> s, o |-> EmptyDict]

ObjTok(d) == [k |-> "obj", s |-> "", o |-> d]

ScalarKinds == {"null", "num", "str", "obj"}

JScalar(tok) == [t |-> "scalar", tok |-> tok, items |-> <<>>]

JArray(items) == [t |-> "array", tok |-> Tok("lb"), items |-> items]

ParseFail == [ok |-> FALSE, val |-> JScalar(Tok("null")), rest |-> <<>>]

\* the JSON grammar over tokens: value ::= scalar | [ ] | [ value {, value} ]
RECURSIVE ParseValue(_)
RECURSIVE ParseItems(_, _)
ParseValue(toks) ==
    IF toks = <<>> THEN ParseFail
    ELSE IF Head(toks).k \in ScalarKinds
         THEN [ok |-> TRUE, val |-> JScalar(Head(toks)), rest |-> Tail(toks)]
    ELSE IF Head(toks).k = "lb"
         THEN IF Len(toks) >= 2 /\ toks[2].k = "rb"
              THEN [ok |-> TRUE, val |-> JArray(<<>>), rest |-> SubSeq(toks, 3, Len(toks))]
              ELSE ParseItems(Tail(toks), <<>>)
    ELSE ParseFail

ParseItems(toks, acc) ==
    LET v == ParseValue(toks) IN
    IF ~v.ok \/ v.rest = <<>> THEN ParseFail
    ELSE IF Head(v.rest).k = "comma"
         THEN ParseItems(Tail(v.rest), Append(acc, v.val))
    ELSE IF Head(v.rest).k = "rb"
         THEN [ok |-> TRUE, val |-> JArray(Append(acc, v.val)), rest |-> Tail(v.rest)]
    ELSE ParseFail

IsWs(tok) == tok.k = "ws"

NotWs(tok) == tok.k # "ws"

\* str.strip(): leading and trailing whitespace removed
RECURSIVE LStrip(_)
LStrip(s) == IF s # <<>> /\ IsWs(Head(s)) THEN LStrip(Tail(s)) ELSE s

RECURSIVE RStrip(_)
RStrip(s) == IF s # <<>> /\ IsWs(s[Len(s)]) THEN RStrip(SubSeq(s, 1, Len(s) - 1)) ELSE s

Strip(s) == RStrip(LStrip(s))

\* json.loads: one value, whitespace allowed around tokens, nothing after it;
\* ok = FALSE is json.JSONDecodeError
JsonLoads(s) ==
    LET p == ParseValue(SelectSeq(s, NotWs)) IN
    IF p.ok /\ p.rest = <<>> THEN [ok |-> TRUE, val |-> p.val]
    ELSE [ok |-> FALSE, val |-> ParseFail.val]

---------------------------------------------------------------------------
(* parse_log_file *)

\* isinstance(json_line, list) and len(json_line) == 1
IsOneElementList(v) == v.t = "array" /\ Len(v.items) = 1

\* the loop of parse_log_file from line i on; printed holds one entry per
\* print() call: the file name and (as history) the index of the line
RECURSIVE ParseLines(_, _, _)
ParseLines(name, lines, i) ==
    IF i > Len(lines) THEN [results |-> <<>>, printed |-> <<>>]
    ELSE LET json_line == JsonLoads(Strip(lines[i]))
             rest == ParseLines(name, lines, i + 1)
         IN IF ~json_line.ok
            THEN [results |-> rest.results,
                  printed |-> <<[file |-> name, line |-> i]>> \o rest.printed]
            ELSE IF IsOneElementList(json_line.val)
                 THEN [results |-> <<json_line.val.items[1]>> \o rest.results,
                       printed |-> rest.printed]
                 ELSE rest

\* mutant: the try wraps the whole loop, so the first line that does not
\* decode ends the reading
RECURSIVE ParseLinesOuterTry(_, _, _)
ParseLinesOuterTry(name, lines, i) ==
    IF i > Len(lines) THEN [results |-> <<>>, printed |-> <<>>]
    ELSE LET json_line == JsonLoads(Strip(lines[i]))
             rest == ParseLinesOuterTry(name, lines, i + 1)
         IN IF ~json_line.ok
            THEN [results |-> <<>>, printed |-> <<[file |-> name, line |-> i]>>]
            ELSE IF IsOneElementList(json_line.val)
                 THEN [results |-> <<json_line.val.items[1]>> \o rest.results,
                       printed |-> rest.printed]
                 ELSE rest

parse_log_file_outer_try(name, lines) == ParseLinesOuterTry(name, lines, 1)

\* mutant: a line that is empty after strip() is skipped before json.loads
RECURSIVE ParseLinesSkipBlank(_, _, _)
ParseLinesSkipBlank(name, lines, i) ==
    IF i > Len(lines) THEN [results |-> <<>>, printed |-> <<>>]
    ELSE LET json_line == JsonLoads(Strip(lines[i]))
             rest == ParseLinesSkipBlank(name, lines, i + 1)
         IN IF Strip(lines[i]) = <<>> THEN rest
            ELSE IF ~json_line.ok
            THEN [results |-> rest.results,
                  printed |-> <<[file |-> name, line |-> i]>> \o rest.printed]
            ELSE IF IsOneElementList(json_line.val)
                 THEN [results |-> <<json_line.val.items[1]>> \o rest.results,
                       printed |-> rest.printed]
                 ELSE rest

parse_log_file_skip_blank(name, lines) == ParseLinesSkipBlank(name, lines, 1)

parse_log_file(name, lines) == ParseLines(name, lines, 1)

---------------------------------------------------------------------------
(* Numbers *)

RECURSIVE Gcd(_, _)
Gcd(a, b) == IF b = 0 THEN a ELSE Gcd(b, a % b)

\* the fraction n/d (n >= 0, d > 0) in lowest terms
Frac(n, d) == LET g == Gcd(n, d) IN [num |-> n \div g, den |-> d \div g]

FracLeq(a, b) == a.num * b.den <= b.num * a.den

\* a Python value held in a summary: k = "num" (v is the number) or "nan"
Number(v) == [k |-> "num", v |-> v]

NaN == [k |-> "nan", v |-> Frac(0, 1)]

RECURSIVE Sum(_)
Sum(s) == IF s = <<>> THEN 0 ELSE Head(s) + Sum(Tail(s))

---------------------------------------------------------------------------
(* summarize_results: the body of the loop over one file's results *)

\* Python's `key in result`: "yes", "no", or "TypeError" when result is not a
\* container.  On a string it is the substring test, which for the strings
\* of this model ("error", "abc") is equality with the key.
KeyIn(key, result) ==
    IF result.t = "array"
    THEN IF \E i \in 1..Len(result.items) :
                /\ result.items[i].t = "scalar"
                /\ result.items[i].tok.k = "str"
                /\ result.items[i].tok.s = key
         THEN "yes" ELSE "no"
    ELSE IF result.tok.k = "obj"
    THEN IF \/ key = "error" /\ result.tok.o.error
            \/ key = "classification" /\ result.tok.o.classification.k # "absent"
            \/ key = "inference_time" /\ result.tok.o.inference_time.k # "absent"
         THEN "yes" ELSE "no"
    ELSE IF result.tok.k = "str"
    THEN IF result.tok.s = key THEN "yes" ELSE "no"
    ELSE "TypeError"

\* str.lower() on the labels of this model
Lower(s) ==
    CASE s = "Safe" -> "safe"
      [] s = "SAFE" -> "safe"
      [] s = "Spam" -> "spam"
      [] s = "Phishing" -> "phishing"
      [] OTHER -> s

\* the is_correct expression, lines 72-77
IsCorrect(c, classification) ==
    \/ c = "safe" /\ Lower(classification) = "safe"
    \/ c = "malicious" /\ Lower(classification) # "safe"

\* mutant: the test at line 68 asks for "classification" only; the
\* inference_time is appended when there is one
ScoreOneWithoutTimeTest(c, result, acc) ==
    IF KeyIn("error", result) = "TypeError" THEN [acc EXCEPT !.raised = "TypeError"]
    ELSE IF KeyIn("error", result) = "yes" THEN acc
    ELSE IF KeyIn("classification", result) # "yes" THEN acc
    ELSE IF result.t = "array" \/ result.tok.k # "obj"
    THEN [acc EXCEPT !.raised = "TypeError"]
    ELSE LET d == result.tok.o IN
         IF d.classification.k = "null" THEN acc
         ELSE IF d.classification.k # "str"
         THEN [acc EXCEPT !.raised = "AttributeError"]
         ELSE [acc EXCEPT
                 !.correct = IF IsCorrect(c, d.classification.s) THEN @ + 1 ELSE @,
                 !.inference_times = IF d.inference_time.k = "absent" THEN @
                                     ELSE Append(@, d.inference_time)]

\* one iteration of `for result in results`, lines 63-80, on the accumulator
\* acc = [raised, correct, inference_times]
ScoreOne(c, result, acc) ==
    IF KeyIn("error", result) = "TypeError" THEN [acc EXCEPT !.raised = "TypeError"]
    ELSE IF KeyIn("error", result) = "yes" THEN acc
    ELSE IF ~(KeyIn("classification", result) = "yes" /\ KeyIn("inference_time", result) = "yes")
    THEN acc
    ELSE IF result.t = "array" \/ result.tok.k # "obj"
    THEN [acc EXCEPT !.raised = "TypeError"]      \* result["classification"] on a list or str
    ELSE LET d == result.tok.o IN
         IF d.classification.k = "null" THEN acc
         ELSE IF d.classification.k # "str"
         THEN [acc EXCEPT !.raised = "AttributeError"]   \* .lower() on a number
         ELSE [acc EXCEPT
                 !.correct = IF IsCorrect(c, d.classification.s) THEN @ + 1 ELSE @,
                 !.inference_times = Append(@, d.inference_time)]

RECURSIVE ScoreLoop(_, _, _, _)
ScoreLoop(c, res, i, acc) ==
    IF i > Len(res) \/ acc.raised # "" THEN acc
    ELSE ScoreLoop(c, res, i + 1, ScoreOne(c, res[i], acc))

IsNum(x) == x.k = "num"

TimeOf(x) == x.n

\* statistics.mean(inference_times) if inference_times else float("nan");
\* mean raises TypeError on an entry that is no number
AvgInferenceTime(times) ==
    IF times = <<>> THEN [raised |-> "", val |-> NaN]
    ELSE IF \E i \in 1..Len(times) : ~IsNum(times[i])
    THEN [raised |-> "TypeError", val |-> NaN]
    ELSE [raised |-> "",
          val |-> Number(Frac(Sum([i \in 1..Len(times) |-> TimeOf(times[i])]), Len(times)))]

\* mutant: the ratio without the factor 100
AccuracyAsRatio(correct, total) == IF total > 0 THEN Frac(correct, total) ELSE Frac(0, 1)

\* correct / total * 100 if total > 0 else 0
Accuracy(correct, total) == IF total > 0 THEN Frac(correct * 100, total) ELSE Frac(0, 1)

\* mutant: total counts only the records without an "error" key
SummarizeFileTotalWithoutErrors(c, res) ==
    LET acc == ScoreLoop(c, res, 1, [raised |-> "", correct |-> 0, inference_times |-> <<>>])
        avg == AvgInferenceTime(acc.inference_times)
        none == [accuracy |-> Frac(0, 1), avg_inference_time |-> NaN, total |-> 0]
        total == Cardinality({i \in 1..Len(res) : KeyIn("error", res[i]) # "yes"})
    IN IF acc.raised # "" THEN [raised |-> acc.raised, entry |-> none]
       ELSE IF avg.raised # "" THEN [raised |-> avg.raised, entry |-> none]
       ELSE [raised |-> "",
             entry |-> [accuracy |-> Accuracy(acc.correct, total),
                        avg_inference_time |-> avg.val,
                        total |-> total]]

\* lines 59-91 for one file: [raised, entry]
SummarizeFile(c, res) ==
    LET acc == ScoreLoop(c, res, 1, [raised |-> "", correct |-> 0, inference_times |-> <<>>])
        avg == AvgInferenceTime(acc.inference_times)
        none == [accuracy |-> Frac(0, 1), avg_inference_time |-> NaN, total |-> 0]
    IN IF acc.raised # "" THEN [raised |-> acc.raised, entry |-> none]
       ELSE IF avg.raised # "" THEN [raised |-> avg.raised, entry |-> none]
       ELSE [raised |-> "",
             entry |-> [accuracy |-> Accuracy(acc.correct, Len(res)),
                        avg_inference_time |-> avg.val,
                        total |-> Len(res)]]

\* a dict: a function from its keys
NoEntries == [m \in {} |-> 0]

DictSet(d, key, val) == [m \in (DOMAIN d) \cup {key} |-> IF m = key THEN val ELSE d[m]]

---------------------------------------------------------------------------
(* generate_markdown_table *)

\* the characters of this model in code-point order
Alphabet == <<".", ":", "_", "a", "b", "c", "e", "f", "g", "i", "l", "m", "o", "s", "t", "u">>

Ord(ch) == CHOOSE i \in 1..Len(Alphabet) : Alphabet[i] = ch

\* Python's str comparison
RECURSIVE StrLeq(_, _)
StrLeq(a, b) ==
    IF a = <<>> THEN TRUE
    ELSE IF b = <<>> THEN FALSE
    ELSE IF Head(a) = Head(b) THEN StrLeq(Tail(a), Tail(b))
    ELSE Ord(Head(a)) < Ord(Head(b))

\* sorted(all_models)
RECURSIVE Sorted(_)
Sorted(S) ==
    IF S = {} THEN <<>>
    ELSE LET m == CHOOSE x \in S : \A y \in S : StrLeq(x, y)
         IN <<m>> \o Sorted(S \ {m})

\* the "N/A" default of dict.get
NA == [k |-> "N/A", v |-> Frac(0, 1)]

\* summary.get(model, {}).get(key, "N/A")
GetAccuracy(d, model) == IF model \in DOMAIN d THEN Number(d[model].accuracy) ELSE NA

GetAvgTime(d, model) == IF model \in DOMAIN d THEN d[model].avg_inference_time ELSE NA

\* isinstance(t, (int, float)): true of numbers and of float("nan")
IsIntOrFloat(t) == t.k \in {"num", "nan"}

\* statistics.mean of a non-empty list of numbers; nan if any entry is nan
RECURSIVE FracSum(_)
FracSum(ts) ==
    IF ts = <<>> THEN Frac(0, 1)
    ELSE LET a == Head(ts).v
             b == FracSum(Tail(ts))
         IN Frac(a.num * b.den + b.num * a.den, a.den * b.den)

MeanOf(ts) ==
    IF \E i \in 1..Len(ts) : ts[i].k = "nan" THEN NaN
    ELSE Number(Frac(FracSum(ts).num, FracSum(ts).den * Len(ts)))

\* lines 111-121
CombinedAvgTime(avg_time_safe, avg_time_mal) ==
    IF avg_time_safe.k # "N/A" /\ avg_time_mal.k # "N/A"
    THEN MeanOf(SelectSeq(<<avg_time_safe, avg_time_mal>>, IsIntOrFloat))
    ELSE NA

\* x rounded to the nearest integer, ties to even (x = n/d >= 0)
RoundHalfEven(n, d) ==
    LET q == n \div d
        r == n % d
    IN IF 2 * r < d THEN q
       ELSE IF 2 * r > d THEN q + 1
       ELSE IF q % 2 = 0 THEN q ELSE q + 1

\* format(x, "<N.2f"): the text of a number in hundredths, "nan" for nan,
\* ValueError for a str
Format2f(x) ==
    IF x.k = "N/A" THEN [raised |-> "ValueError", text |-> [k |-> "N/A", h |-> 0]]
    ELSE IF x.k = "nan" THEN [raised |-> "", text |-> [k |-> "nan", h |-> 0]]
    ELSE [raised |-> "", text |-> [k |-> "num", h |-> RoundHalfEven(x.v.num * 100, x.v.den)]]

\* the body of `for model in sorted(all_models)`, lines 106-123
TableRow(safe, mal, model) ==
    LET safe_acc == Format2f(GetAccuracy(safe, model))
        mal_acc == Format2f(GetAccuracy(mal, model))
        avg_time == Format2f(CombinedAvgTime(GetAvgTime(safe, model), GetAvgTime(mal, model)))
    IN [raised |-> IF safe_acc.raised # "" THEN safe_acc.raised
                   ELSE IF mal_acc.raised # "" THEN mal_acc.raised
                   ELSE avg_time.raised,
        row |-> [model |-> model, safe_acc |-> safe_acc.text,
                 mal_acc |-> mal_acc.text, avg_time |-> avg_time.text]]

RECURSIVE TableRows(_, _, _, _)
TableRows(safe, mal, models, i) ==
    IF i > Len(models) THEN [raised |-> "", rows |-> <<>>]
    ELSE LET r == TableRow(safe, mal, models[i])
             rest == TableRows(safe, mal, models, i + 1)
         IN IF r.raised # "" THEN [raised |-> r.raised, rows |-> <<>>]
            ELSE IF rest.raised # "" THEN rest
            ELSE [raised |-> "", rows |-> <<r.row>> \o rest.rows]

generate_markdown_table(safe, mal) ==
    TableRows(safe, mal, Sorted((DOMAIN safe) \cup (DOMAIN mal)), 1)

---------------------------------------------------------------------------
(* The aggregation run: main() of parse_benchmark.py *)

FileLines(name) == (CHOOSE f \in dir : f.name = name).lines

\* glob.glob(f"{log_dir}/test_{category}_*.log")
Glob(c) == {f.name : f \in {g \in dir : GlobMatches(g.name, c)}}

\* main() calls summarize_results(log_dir, "safe"), then (log_dir, "malicious")
CallSummarize ==
    /\ pc \in {"call_safe", "call_malicious"}
    /\ category' = (IF pc = "call_safe" THEN "safe" ELSE "malicious")
    /\ summary' = NoEntries
    /\ todo' = Glob(category')
    /\ pc' = "loop"
    /\ UNCHANGED <<dir, log_file, model_name, results, stdout, safe_summary,
                   malicious_summary, table, raised, emailVars>>

\* lines 50-57: the next file of the glob (in no fixed order), its model
\* name, and parse_log_file on it
ParseFile ==
    /\ pc = "loop"
    /\ \E name \in todo :
          LET r == parse_log_file(name, FileLines(name)) IN
          /\ log_file' = name
          /\ model_name' = ModelName(name, category)
          /\ results' = r.results
          /\ stdout' = stdout \o r.printed
          /\ todo' = todo \ {name}
    /\ pc' = "score"
    /\ UNCHANGED <<dir, category, safe_summary, malicious_summary, summary,
                   table, raised, emailVars>>

\* lines 59-91: score the file's results and store the entry; an exception
\* leaves summarize_results and main()
Score ==
    /\ pc = "score"
    /\ LET r == SummarizeFile(category, results) IN
       IF r.raised # ""
       THEN /\ pc' = "aborted"
            /\ raised' = r.raised
            /\ UNCHANGED summary
       ELSE /\ pc' = "loop"
            /\ summary' = DictSet(summary, model_name, r.entry)
            /\ UNCHANGED raised
    /\ UNCHANGED <<dir, category, todo, log_file, model_name, results, stdout,
                   safe_summary, malicious_summary, table, emailVars>>

\* line 93: return summary, assigned by main() at lines 145-146
Return ==
    /\ pc = "loop"
    /\ todo = {}
    /\ IF category = "safe"
       THEN /\ safe_summary' = summary
            /\ pc' = "call_malicious"
            /\ UNCHANGED malicious_summary
       ELSE /\ malicious_summary' = summary
            /\ pc' = "table"
            /\ UNCHANGED safe_summary
    /\ UNCHANGED <<dir, category, todo, log_file, model_name, results, stdout,
                   summary, table, raised, emailVars>>

\* line 148, then the write of benchmark.md
GenerateTable ==
    /\ pc = "table"
    /\ LET r == generate_markdown_table(safe_summary, malicious_summary) IN
       IF r.raised # ""
       THEN /\ pc' = "aborted"
            /\ raised' = r.raised
            /\ UNCHANGED table
       ELSE /\ pc' = "done"
            /\ table' = r.rows
            /\ UNCHANGED raised
    /\ UNCHANGED <<dir, category, todo, log_file, model_name, results, stdout,
                   safe_summary, malicious_summary, summary, emailVars>>

Next == CallSummarize \/ ParseFile \/ Score \/ Return \/ GenerateTable

EmailIdle ==
    /\ email_files = <<>>
    /\ eidx = 1
    /\ eresults = <<>>
    /\ epc = "idle"
    /\ eraised = ""

\* the state when main() starts, for a directory drawn from dirs
InitRun(dirs) ==
    /\ dir \in dirs
    /\ pc = "call_safe"
    /\ category = ""
    /\ todo = {}
    /\ log_file = <<>>
    /\ model_name = <<>>
    /\ results = <<>>
    /\ stdout = <<>>
    /\ safe_summary = NoEntries
    /\ malicious_summary = NoEntries
    /\ summary = NoEntries
    /\ table = <<>>
    /\ raised = ""
    /\ EmailIdle

---------------------------------------------------------------------------
(* Directories the run starts from *)

File(name, lines) == [name |-> name, lines |-> lines]

LogName(c, body) == Prefix(c) \o body \o DotLog

\* sequences over S of length at most n
SeqsUpTo(S, n) == UNION {[1..k -> S] : k \in 0..n}

\* a line holding the one-element array [value]
ArrayLine(tok) == <<Tok("lb"), tok, Tok("rb")>>

Scored(label, t) == Dict(FALSE, StrVal(label), NumVal(t))

\* every directory that holds, for some of the names, a file with some content
DirsOver(names, contents) ==
    UNION {{{File(n, f[n]) : n \in N} : f \in [N -> contents]} : N \in SUBSET names}

A == <<"a">>

B == <<"b">>

\* Spec: up to three log files (model a in both categories, model b in
\* "safe" only) of lines of every kind the run can meet
RunLines ==
    { ArrayLine(ObjTok(Scored("Safe", 1))),
      ArrayLine(ObjTok(Scored("Spam", 3))),
      ArrayLine(ObjTok(Dict(TRUE, Absent, Absent))),
      ArrayLine(ObjTok(Dict(FALSE, Null, NumVal(1)))),
      ArrayLine(ObjTok(Dict(FALSE, NumVal(5), NumVal(1)))),
      ArrayLine(ObjTok(Dict(FALSE, StrVal("Safe"), Null))),
      ArrayLine(Tok("num")),
      ArrayLine(StrTok("error")),
      <<Tok("bad")>>,
      <<>> }

RunDirs ==
    DirsOver({LogName("safe", A), LogName("malicious", A), LogName("safe", B)},
             SeqsUpTo(RunLines, MaxRunLines))

Init == InitRun(RunDirs)

Spec == Init /\ [][Next]_vars

\* SpecParse: one log file of lines that decode, do not decode, or decode to
\* something other than a one-element array
OkDict == Scored("Safe", 1)

ErrDict == Dict(TRUE, Absent, Absent)

ParseLineSet ==
    { <<>>,
      <<Tok("ws")>>,
      <<Tok("bad")>>,
      <<Tok("lb"), ObjTok(OkDict)>>,
      <<Tok("lb"), ObjTok(OkDict), Tok("rb"), Tok("bad")>>,
      <<Tok("lb"), ObjTok(OkDict), Tok("comma"), Tok("rb")>>,
      <<ObjTok(OkDict)>>,
      <<Tok("lb"), Tok("rb")>>,
      <<Tok("lb"), ObjTok(OkDict), Tok("comma"), ObjTok(ErrDict), Tok("rb")>>,
      ArrayLine(ObjTok(OkDict)),
      <<Tok("ws"), Tok("lb"), Tok("ws"), ObjTok(ErrDict), Tok("rb"), Tok("ws")>>,
      ArrayLine(StrTok("abc")),
      <<Tok("lb"), Tok("lb"), ObjTok(OkDict), Tok("rb"), Tok("rb")>> }

ParseDirs == {{File(LogName("safe", A), ls)} : ls \in SeqsUpTo(ParseLineSet, MaxLines)}

InitParse == InitRun(ParseDirs)

SpecParse == InitParse /\ [][Next]_vars

\* SpecScore: one log file, of either category, of one-record lines; the
\* records are every combination of the keys the scorer reads
Labels == {"Safe", "Spam"}

Times == {1, 3}

ScoreDicts ==
    {Dict(FALSE, c, t) :
        c \in {Absent, Null} \cup {StrVal(l) : l \in Labels},
        t \in {Absent} \cup {NumVal(n) : n \in Times}}
    \cup {Dict(TRUE, Absent, Absent), Dict(TRUE, StrVal("Safe"), NumVal(1))}

ScoreLineSet == {ArrayLine(ObjTok(d)) : d \in ScoreDicts}

ScoreDirs ==
    {{File(LogName(c, A), ls)} :
        c \in {"safe", "malicious"}, ls \in SeqsUpTo(ScoreLineSet, MaxRecords)}

InitScore == InitRun(ScoreDirs)

SpecScore == InitScore /\ [][Next]_vars

\* SpecNames: one log file of either category whose name, between
\* test_<category>_ and .log, is built of up to MaxPieces pieces
Pieces == {A, B, Underscore, DotLog, Prefix("safe")}

RECURSIVE Concat(_)
Concat(ss) == IF ss = <<>> THEN <<>> ELSE Head(ss) \o Concat(Tail(ss))

Bodies == {Concat(ps) : ps \in SeqsUpTo(Pieces, MaxPieces)}

NameDirs ==
    {{File(LogName(c, b), ls), File(<<"l", "o", "g">>, <<>>)} :
        c \in {"safe", "malicious"}, b \in Bodies,
        ls \in {<<>>, <<ArrayLine(ObjTok(OkDict))>>}}

InitNames == InitRun(NameDirs)

SpecNames == InitNames /\ [][Next]_vars

---------------------------------------------------------------------------
(* process_emails (main.py) with parse_email and classify_email *)

\* determine_file_type: "ValueError" for any other MIME type
determine_file_type(mime) ==
    IF mime = "message/rfc822" THEN "eml"
    ELSE IF mime = "application/vnd.ms-outlook" THEN "msg"
    ELSE "ValueError"

\* parse_email on a file [mime, bodies]: bodies is the length of the body
\* list eml_parser returns, which parse_eml_email indexes with [0]
parse_email(f) ==
    LET file_type == determine_file_type(f.mime) IN
    IF file_type = "ValueError" THEN "ValueError"
    ELSE IF file_type = "eml" /\ f.bodies = 0 THEN "IndexError"
    ELSE "ok"

\* a line that is the triple-backtick fence
IsFence(l) == l = "fence"

\* filter_markdown on the stripped reply, a sequence of lines
filter_markdown(content) ==
    IF content # <<>> /\ IsFence(Head(content)) /\ IsFence(content[Len(content)])
    THEN SubSeq(content, 2, Len(content) - 1)
    ELSE content

\* lines 111-116 of classify_email on the reply of the LLM: a reply decodes
\* when what filter_markdown leaves is the JSON text alone
classify_email(reply) ==
    IF filter_markdown(reply) = <<"json">> THEN "ok" ELSE "ValueError"

Replies ==
    { <<"json">>,
      <<"fence", "json", "fence">>,
      <<"prose">>,
      <<"fence">>,
      <<"prose", "json">> }

\* one iteration of the loop of process_emails: only IndexError is caught
ProcessEmail ==
    /\ epc = "loop"
    /\ eidx <= Len(email_files)
    /\ \E reply \in Replies :
          LET email_file == email_files[eidx]
              parsed == parse_email(email_file)
              outcome == IF parsed # "ok" THEN parsed ELSE classify_email(reply)
          IN IF outcome = "ok"
             THEN /\ eresults' = Append(eresults, [file |-> email_file, error |-> FALSE])
                  /\ eidx' = eidx + 1
                  /\ UNCHANGED <<epc, eraised>>
             ELSE IF outcome = "IndexError"
             THEN /\ eresults' = Append(eresults, [file |-> email_file, error |-> TRUE])
                  /\ eidx' = eidx + 1
                  /\ UNCHANGED <<epc, eraised>>
             ELSE /\ epc' = "raised"
                  /\ eraised' = outcome
                  /\ UNCHANGED <<eresults, eidx>>
    /\ UNCHANGED <<email_files, runVars>>

\* line 76: return results
ReturnResults ==
    /\ epc = "loop"
    /\ eidx > Len(email_files)
    /\ epc' = "returned"
    /\ UNCHANGED <<email_files, eidx, eresults, eraised, runVars>>

NextEmails == ProcessEmail \/ ReturnResults

EmailFile(mime, bodies) == [mime |-> mime, bodies |-> bodies]

EmailFileSet ==
    { EmailFile("message/rfc822", 1),
      EmailFile("message/rfc822", 0),
      EmailFile("application/vnd.ms-outlook", 1),
      EmailFile("text/plain", 1) }

InitEmails ==
    /\ dir = {}
    /\ pc = "idle"
    /\ category = ""
    /\ todo = {}
    /\ log_file = <<>>
    /\ model_name = <<>>
    /\ results = <<>>
    /\ stdout = <<>>
    /\ safe_summary = NoEntries
    /\ malicious_summary = NoEntries
    /\ summary = NoEntries
    /\ table = <<>>
    /\ raised = ""
    /\ email_files \in SeqsUpTo(EmailFileSet, MaxEmails)
    /\ eidx = 1
    /\ eresults = <<>>
    /\ epc = "loop"
    /\ eraised = ""

SpecEmails == InitEmails /\ [][NextEmails]_vars

---------------------------------------------------------------------------
(* Properties of parse_log_file (SpecParse) *)

\* parse_log_file has just returned `results` for log_file
AtScore == pc = "score"

Decodes(line) == JsonLoads(Strip(line)).ok

Accepted(line) == Decodes(line) /\ IsOneElementList(JsonLoads(Strip(line)).val)

ElementOf(line) == JsonLoads(Strip(line)).val.items[1]

AcceptedIdx(ls) == {i \in 1..Len(ls) : Accepted(ls[i])}

\* the index of the k-th accepted line
NthAccepted(ls, k) ==
    CHOOSE i \in AcceptedIdx(ls) : Cardinality({j \in AcceptedIdx(ls) : j <= i}) = k

IsBlank(line) == \A i \in 1..Len(line) : line[i].k = "ws"

Reported(i) ==
    \E n \in 1..Len(stdout) : stdout[n].file = log_file /\ stdout[n].line = i

ReportCount == Cardinality({n \in 1..Len(stdout) : stdout[n].file = log_file})

\* C4: parse_log_file returns one entry per line that decodes to a
\* one-element array, namely the element of the i-th such line in file
\* order, whatever malformed or wrongly shaped lines lie between them.
C4_OneRecordPerAcceptedLine ==
    AtScore =>
        LET ls == FileLines(log_file) IN
        /\ Len(results) = Cardinality(AcceptedIdx(ls))
        /\ \A k \in 1..Len(results) : results[k] = ElementOf(ls[NthAccepted(ls, k)])

\* a file with an accepted line between two lines that do not decode
C4_Witness ==
    /\ AtScore
    /\ LET ls == FileLines(log_file) IN
       /\ Len(ls) = 3
       /\ ~Decodes(ls[1]) /\ Accepted(ls[2]) /\ ~Decodes(ls[3])
       /\ Len(results) = 1

\* C5 as stated: a report is printed for a line exactly when it fails to
\* decode, where a blank line is a shape mismatch that is not reported and
\* does not count among the decode failures.
C5_BlankLinesNotReported ==
    AtScore =>
        LET ls == FileLines(log_file) IN
        /\ \A i \in 1..Len(ls) : Reported(i) <=> (~Decodes(ls[i]) /\ ~IsBlank(ls[i]))
        /\ ReportCount = Cardinality({i \in 1..Len(ls) : ~Decodes(ls[i]) /\ ~IsBlank(ls[i])})

\* C5 amended: a report is printed for a line exactly when json.loads fails
\* on the stripped line; a line that decodes to something other than a
\* one-element array is dropped without a report; a blank line fails to decode,
\* so it is reported and counts; the number of reports for a file is the
\* number of its lines that fail to decode.
C5_DecodeFailuresReported ==
    AtScore =>
        LET ls == FileLines(log_file) IN
        /\ \A i \in 1..Len(ls) : Reported(i) <=> ~Decodes(ls[i])
        /\ \A i \in 1..Len(ls) : IsBlank(ls[i]) => Reported(i)
        /\ \A i \in 1..Len(ls) : (Decodes(ls[i]) /\ ~Accepted(ls[i])) => ~Reported(i)
        /\ ReportCount = Cardinality({i \in 1..Len(ls) : ~Decodes(ls[i])})

\* a file with a blank line, a line of valid JSON of the wrong shape and a
\* malformed line
C5_Witness ==
    /\ AtScore
    /\ LET ls == FileLines(log_file) IN
       /\ \E i \in 1..Len(ls) : IsBlank(ls[i])
       /\ \E i \in 1..Len(ls) : Decodes(ls[i]) /\ ~Accepted(ls[i])
       /\ \E i \in 1..Len(ls) : ~Decodes(ls[i]) /\ ~IsBlank(ls[i])
       /\ ReportCount = 2

---------------------------------------------------------------------------
(* Properties of the scoring (SpecScore) *)

\* the loop body has just stored the entry of `results` under model_name
JustScored == pc = "loop" /\ log_file # <<>> /\ model_name \in DOMAIN summary

Entry == summary[model_name]

Rec(i) == results[i].tok.o

SafeSpellings == {"safe", "Safe", "SAFE"}

LabelMatches(c, d) ==
    /\ d.classification.k = "str"
    /\ \/ c = "safe" /\ d.classification.s \in SafeSpellings
       \/ c = "malicious" /\ d.classification.s \notin SafeSpellings

\* records the claims call scorable and correct
ScorableCorrect(c, res) ==
    {i \in 1..Len(res) : ~res[i].tok.o.error /\ LabelMatches(c, res[i].tok.o)}

\* those among them that carry an inference_time
TimedCorrect(c, res) ==
    {i \in ScorableCorrect(c, res) : res[i].tok.o.inference_time.k # "absent"}

Percent(n, total) == IF total = 0 THEN Frac(0, 1) ELSE Frac(n * 100, total)

InPercentRange(x) == FracLeq(Frac(0, 1), x) /\ FracLeq(x, Frac(100, 1))

\* the numerator behind an entry: accuracy * total / 100
NumeratorOf(e) ==
    IF e.total = 0 THEN 0 ELSE (e.accuracy.num * e.total) \div (e.accuracy.den * 100)

\* C6 as stated: total counts every record, and accuracy is
\* numerator / total * 100 (0 when total = 0) where the numerator counts the
\* error-free records with a non-null classification whose label fits the
\* category; so accuracy lies in [0, 100].
C6_NumeratorCountsEveryScorable ==
    JustScored =>
        /\ Entry.total = Len(results)
        /\ Entry.accuracy = Percent(Cardinality(ScorableCorrect(category, results)), Len(results))
        /\ InPercentRange(Entry.accuracy)

\* C6 amended: the same, with the numerator counting only those error-free
\* records with a fitting non-null label that also carry an inference_time.
C6_NumeratorCountsTimedScorable ==
    JustScored =>
        /\ Entry.total = Len(results)
        /\ Entry.accuracy = Percent(Cardinality(TimedCorrect(category, results)), Len(results))
        /\ InPercentRange(Entry.accuracy)
        /\ NumeratorOf(Entry) <= Entry.total

\* a file with a counted record, a fitting record without inference_time and
\* an error record
C6_Witness ==
    /\ JustScored
    /\ TimedCorrect(category, results) # {}
    /\ TimedCorrect(category, results) # ScorableCorrect(category, results)
    /\ \E i \in 1..Len(results) : Rec(i).error

Last == Rec(Len(results))

\* the entry the scorer gives the records before position k + 1
EntryOfFirst(k) == SummarizeFile(category, SubSeq(results, 1, k)).entry

\* the mean of the inference_time of the records that are scored
TimedIdx(res) ==
    {i \in 1..Len(res) :
        /\ ~res[i].tok.o.error
        /\ res[i].tok.o.classification.k = "str"
        /\ res[i].tok.o.inference_time.k = "num"}

RECURSIVE SumOver(_, _)
SumOver(res, S) ==
    IF S = {} THEN 0
    ELSE LET i == CHOOSE x \in S : TRUE
         IN res[i].tok.o.inference_time.n + SumOver(res, S \ {i})

ExpectedAvg(res) ==
    IF TimedIdx(res) = {} THEN NaN
    ELSE Number(Frac(SumOver(res, TimedIdx(res)), Cardinality(TimedIdx(res))))

\* C7 as stated: an error-free record with a non-null classification whose
\* label fits the category is counted in the numerator whether or not it
\* carries an inference_time.
C7_CountedWithoutTime ==
    (JustScored /\ Len(results) >= 1) =>
        ((~Last.error /\ LabelMatches(category, Last))
            => NumeratorOf(Entry) = NumeratorOf(EntryOfFirst(Len(results) - 1)) + 1)

\* C7 amended: such a record is counted in the numerator exactly when it
\* also carries an inference_time; without one it adds to total only, and
\* avg_inference_time is the mean over the error-free records with a
\* non-null classification and an inference_time.
C7_CountedOnlyWithTime ==
    (JustScored /\ Len(results) >= 1) =>
        /\ NumeratorOf(Entry) =
              NumeratorOf(EntryOfFirst(Len(results) - 1))
              + (IF /\ ~Last.error
                    /\ LabelMatches(category, Last)
                    /\ Last.inference_time.k # "absent"
                 THEN 1 ELSE 0)
        /\ Entry.total = EntryOfFirst(Len(results) - 1).total + 1
        /\ Entry.avg_inference_time = ExpectedAvg(results)

\* a counted record followed by a fitting record without inference_time
C7_Witness ==
    /\ JustScored
    /\ Len(results) >= 2
    /\ ~Last.error /\ LabelMatches(category, Last) /\ Last.inference_time.k = "absent"
    /\ NumeratorOf(Entry) >= 1
    /\ Entry.avg_inference_time.k = "num"

Unscorable(d) == d.error \/ d.classification.k \in {"null", "absent"}

\* C8: appending records that have an error or a null classification never
\* raises accuracy: the numerator stays and total grows by their number.
C8_UnscorableNeverRaiseAccuracy ==
    JustScored =>
        \A k \in 0..Len(results) :
            (\A i \in (k + 1)..Len(results) : Unscorable(Rec(i))) =>
                /\ FracLeq(Entry.accuracy, EntryOfFirst(k).accuracy)
                /\ NumeratorOf(Entry) = NumeratorOf(EntryOfFirst(k))
                /\ Entry.total = EntryOfFirst(k).total + (Len(results) - k)

\* a counted record followed by an error record and a null classification:
\* accuracy drops
C8_Witness ==
    /\ JustScored
    /\ Len(results) = 3
    /\ Rec(2).error
    /\ ~Rec(3).error /\ Rec(3).classification.k = "null"
    /\ NumeratorOf(Entry) = 1
    /\ Entry.accuracy # EntryOfFirst(1).accuracy
    /\ EntryOfFirst(1).accuracy = Frac(100, 1)

---------------------------------------------------------------------------
(* Properties of the whole run (Spec) *)

\* C1: the aggregation run never aborts, whatever the files hold.
C1_RunNeverAborts == pc # "aborted"

\* generate_markdown_table has returned or raised
TableCalled == pc = "done" \/ (pc = "aborted" /\ raised = "ValueError")

InBoth(m) == m \in DOMAIN safe_summary /\ m \in DOMAIN malicious_summary

AllModels == (DOMAIN safe_summary) \cup (DOMAIN malicious_summary)

\* C2: a model in only one of the two summaries still gets a row: the missing
\* category's accuracy and the combined time are "N/A", the present
\* category's accuracy is its number.
C2_OneSidedModelGetsRow ==
    TableCalled =>
        \A m \in AllModels :
            ~InBoth(m) =>
                \E i \in 1..Len(table) :
                    /\ table[i].model = m
                    /\ table[i].avg_time.k = "N/A"
                    /\ IF m \in DOMAIN safe_summary
                       THEN table[i].safe_acc.k = "num" /\ table[i].mal_acc.k = "N/A"
                       ELSE table[i].safe_acc.k = "N/A" /\ table[i].mal_acc.k = "num"

\* C3: for a model in both summaries the combined time is the mean of the two
\* avg_inference_time values when both are numbers, and "N/A" when either is
\* the not-a-number sentinel.
C3_SentinelRendersNA ==
    pc = "done" =>
        \A i \in 1..Len(table) :
            InBoth(table[i].model) =>
                LET a == safe_summary[table[i].model].avg_inference_time
                    b == malicious_summary[table[i].model].avg_inference_time
                IN IF a.k = "num" /\ b.k = "num"
                   THEN /\ table[i].avg_time.k = "num"
                        /\ table[i].avg_time.h =
                              RoundHalfEven((a.v.num * b.v.den + b.v.num * a.v.den) * 100,
                                            2 * a.v.den * b.v.den)
                   ELSE table[i].avg_time.k = "N/A"

---------------------------------------------------------------------------
(* Properties of the model name (SpecNames) and of process_emails (SpecEmails) *)

\* C9: the key is the file name without its leading test_<category>_ and its
\* trailing .log, each underscore then replaced by a colon; the prefix text
\* and ".log" inside the name are kept.
C9_OnlyPrefixAndSuffixRemoved ==
    AtScore =>
        model_name =
            Replace(SubSeq(log_file, Len(Prefix(category)) + 1, Len(log_file) - Len(DotLog)),
                    Underscore, Colon)

\* C10: process_emails returns one entry per input file, in input order,
\* whatever goes wrong with a file.
C10_OneEntryPerFile ==
    epc \in {"returned", "raised"} =>
        /\ epc = "returned"
        /\ Len(eresults) = Len(email_files)
        /\ \A i \in 1..Len(eresults) : eresults[i].file = email_files[i]

====
